---- MODULE Spec2Model ----
(***************************************************************************)
(* Model of the NFA construction engine of 425-regexproject (src/nfa.py)   *)
(* and of the pipeline that drives it (src/main.py).                       *)
(*                                                                         *)
(* A State object is identified by the code point of its label: the global *)
(* counter current_label only grows, so no two State objects of one        *)
(* process share a label.  The transition tables of all State objects are  *)
(* one set of triples <<source, literal, destination>>; the keys of        *)
(* state.transitions are the literals that occur in a triple of that       *)
(* source, since add_transition never creates an empty destination set.    *)
(***************************************************************************)
EXTENDS Integers, Sequences, FiniteSets, TLC

\* ---------------------------------------------------------------- bounds

\* Largest number of nodes of a syntax tree made of the recognized variants.
MaxNodes == 6

\* Largest number of nodes of each operand of the intersections built on top of
\* those trees.
MaxOperandNodes == 3

\* Largest number of nodes of a syntax tree that may hold unrecognized variants.
MaxBadNodes == 3

\* Longest input string the language claims are checked on.
MaxLen == 3

\* Literal symbols of the syntax trees.
Alphabet == {"a", "b"}

\* ------------------------------------------------------- program constants

EPSILON == "eps"

InitialLabel == 65

LabelSpan == 26

None == 0

\* ------------------------------------------------------------ syntax trees
\* A token is a tuple whose first component is its class:
\*   <<"LiteralToken", id>>, <<"KleeneStarToken", target>>,
\*   <<"UnionToken", left, right>>, ...
\* The Other* classes stand for subclasses the builder does not know.

LiteralClasses == {"LiteralToken"}

UnaryOperatorClasses == {"KleeneStarToken", "OtherUnaryToken"}

BinaryOperatorClasses ==
    {"ConcatToken", "UnionToken", "IntersectionToken", "OtherBinaryToken"}

OperatorClasses ==
    UnaryOperatorClasses \cup BinaryOperatorClasses \cup {"OtherOperatorToken"}

RecognizedClasses ==
    {"LiteralToken", "KleeneStarToken", "ConcatToken", "UnionToken",
     "IntersectionToken"}

AllClasses == LiteralClasses \cup OperatorClasses \cup {"OtherRegexToken"}

Class(token) == token[1]

\* Leaves of the classes in cs.
Leaves(cs) ==
    {<<"LiteralToken", a>> : a \in IF "LiteralToken" \in cs THEN Alphabet ELSE {}}
    \cup {<<c, "x">> : c \in cs \cap {"OtherRegexToken", "OtherOperatorToken"}}

RECURSIVE TreesOfSize(_, _)
\* The syntax trees with exactly n nodes whose classes are in cs.
TreesOfSize(n, cs) ==
    IF n <= 0 THEN {}
    ELSE IF n = 1 THEN Leaves(cs)
    ELSE {<<c, t>> : c \in cs \cap UnaryOperatorClasses, t \in TreesOfSize(n - 1, cs)}
         \cup UNION {{<<c, l, r>> : c \in cs \cap BinaryOperatorClasses,
                                    l \in TreesOfSize(i, cs),
                                    r \in TreesOfSize(n - 1 - i, cs)}
                     : i \in 1..(n - 2)}

Trees(n, cs) == UNION {TreesOfSize(k, cs) : k \in 1..n}

RECURSIVE Subtrees(_)
Subtrees(token) ==
    {token} \cup
    (IF Class(token) \in UnaryOperatorClasses THEN Subtrees(token[2])
     ELSE IF Class(token) \in BinaryOperatorClasses
          THEN Subtrees(token[2]) \cup Subtrees(token[3])
     ELSE {})

OnlyRecognized(token) == \A t \in Subtrees(token) : Class(t) \in RecognizedClasses

\* ------------------------------------------------------------------ State
\* A heap h is [label, trans, iter]: the global counter, every transition
\* added so far, and the order in which this run iterates over sets of pairs.

Heap(label, trans, iter) == [label |-> label, trans |-> trans, iter |-> iter]

\* State.__init__: the new object's label, or the exception.
State(h) ==
    IF h.label > InitialLabel + LabelSpan
    THEN [ok |-> FALSE, id |-> None, label |-> h.label]
    ELSE [ok |-> TRUE, id |-> h.label, label |-> h.label + 1]

add_transition(trans, from, literal, to) == trans \cup {<<from, literal, to>>}

\* state.transitions.keys()
Keys(trans, s) == {e[2] : e \in {x \in trans : x[1] = s}}

\* state.transitions[literal], and .get(literal, set())
Dest(trans, s, literal) == {e[3] : e \in {x \in trans : x[1] = s /\ x[2] = literal}}

\* ------------------------------------------------------------ build results

NFA(initial, accepting) == [initial |-> initial, accepting |-> accepting]

NoNFA == NFA(None, {})

Return(nfa, label, trans) ==
    [ok |-> TRUE, err |-> "none", nfa |-> nfa, label |-> label, trans |-> trans]

Raise(err, label, trans) ==
    [ok |-> FALSE, err |-> err, nfa |-> NoNFA, label |-> label, trans |-> trans]

LabelError == "Cannot create more than 26 labels with labels enabled"

\* ------------------------------------------------- NFA.collect_reachable_states

RECURSIVE PushAll(_, _)
\* stack.append(next_state) for every edge of the set edges, in iteration order.
PushAll(stack, edges) ==
    IF edges = {} THEN stack
    ELSE LET e == CHOOSE x \in edges : TRUE
         IN PushAll(Append(stack, e[3]), edges \ {e})

RECURSIVE Walk_LiteralsOnly(_, _, _)
\* Mutant of Walk: the walk follows literal transitions and skips epsilon ones.
Walk_LiteralsOnly(stack, states, trans) ==
    IF Len(stack) = 0 THEN states
    ELSE LET state == stack[Len(stack)]
             popped == SubSeq(stack, 1, Len(stack) - 1)
             seen == states \cup {state}
             unseen == {e \in trans : e[1] = state /\ e[2] # EPSILON /\ e[3] \notin seen}
         IN Walk_LiteralsOnly(PushAll(popped, unseen), seen, trans)

RECURSIVE Walk(_, _, _)
\* The while loop of collect_reachable_states.
Walk(stack, states, trans) ==
    IF Len(stack) = 0 THEN states
    ELSE LET state == stack[Len(stack)]
             popped == SubSeq(stack, 1, Len(stack) - 1)
             seen == states \cup {state}
             unseen == {e \in trans : e[1] = state /\ e[3] \notin seen}
         IN Walk(PushAll(popped, unseen), seen, trans)

collect_reachable_states(nfa, trans) == Walk(<<nfa.initial>>, {}, trans)

\* ------------------------------------------------------------- the builders

RECURSIVE parse_regex_token(_, _)

parse_literal_token(token, h) ==
    LET initial == State(h)
        accepting == State(Heap(initial.label, h.trans, h.iter))
    IN IF ~initial.ok THEN Raise(LabelError, initial.label, h.trans)
       ELSE IF ~accepting.ok THEN Raise(LabelError, accepting.label, h.trans)
       ELSE Return(NFA(initial.id, {accepting.id}), accepting.label,
                   add_transition(h.trans, initial.id, token[2], accepting.id))

parse_union_token(token, h) ==
    LET left == parse_regex_token(token[2], h)
        right == parse_regex_token(token[3], Heap(left.label, left.trans, h.iter))
        initial == State(Heap(right.label, right.trans, h.iter))
    IN IF ~left.ok THEN left
       ELSE IF ~right.ok THEN right
       ELSE IF ~initial.ok THEN Raise(LabelError, initial.label, right.trans)
       ELSE Return(NFA(initial.id, left.nfa.accepting \cup right.nfa.accepting),
                   initial.label,
                   add_transition(
                       add_transition(right.trans, initial.id, EPSILON, left.nfa.initial),
                       initial.id, EPSILON, right.nfa.initial))

\* compute_pairs(xs, ys): combinations of the two lists taken 2 at a time is the
\* one tuple (xs, ys), whose product is every pair.
compute_pairs(xs, ys) == xs \X ys

IterOrders == {"ascending", "descending"}

\* Whether pair p comes before pair q when a set of pairs is iterated.
Before(p, q, iter) ==
    LET lt == p[1] < q[1] \/ (p[1] = q[1] /\ p[2] < q[2])
    IN IF iter = "ascending" THEN lt ELSE (p # q /\ ~lt)

RECURSIVE CreateStates(_, _)
\* n calls of State() in a row: the counter after them, or where one raised.
CreateStates(n, h) ==
    IF n = 0 THEN [ok |-> TRUE, label |-> h.label]
    ELSE LET s == State(h)
         IN IF ~s.ok THEN [ok |-> FALSE, label |-> s.label]
            ELSE CreateStates(n - 1, Heap(s.label, h.trans, h.iter))

\* Mutant of ProductEdges: an epsilon move of the product moves both operands
\* to an epsilon destination, neither may stay where it is.
ProductEdges_NoIdle(pair, state, trans) ==
    LET left_state == pair[1]
        right_state == pair[2]
        common_symbols ==
            (Keys(trans, left_state) \cap Keys(trans, right_state)) \ {EPSILON}
        real == UNION {{<<state, symbol, np>> :
                          np \in compute_pairs(Dest(trans, left_state, symbol),
                                               Dest(trans, right_state, symbol))}
                       : symbol \in common_symbols}
        eps == {<<state, EPSILON, np>> :
                  np \in compute_pairs(Dest(trans, left_state, EPSILON),
                                       Dest(trans, right_state, EPSILON))}
    IN real \cup eps

\* The product transitions added for one item ((left_state, right_state), state)
\* of product_states, as triples whose destination is still a pair.
ProductEdges(pair, state, trans) ==
    LET left_state == pair[1]
        right_state == pair[2]
        common_symbols ==
            (Keys(trans, left_state) \cap Keys(trans, right_state)) \ {EPSILON}
        real == UNION {{<<state, symbol, np>> :
                          np \in compute_pairs(Dest(trans, left_state, symbol),
                                               Dest(trans, right_state, symbol))}
                       : symbol \in common_symbols}
        eps == IF EPSILON \in Keys(trans, left_state) \cup Keys(trans, right_state)
               THEN {<<state, EPSILON, np>> :
                       np \in compute_pairs(
                           Dest(trans, left_state, EPSILON) \cup {left_state},
                           Dest(trans, right_state, EPSILON) \cup {right_state})}
               ELSE {}
    IN real \cup eps

parse_intersection_token(token, h) ==
    LET left == parse_regex_token(token[2], h)
        right == parse_regex_token(token[3], Heap(left.label, left.trans, h.iter))
        trans == right.trans
        left_states == collect_reachable_states(left.nfa, trans)
        right_states == collect_reachable_states(right.nfa, trans)
        pairs == compute_pairs(left_states, right_states)
        created == CreateStates(Cardinality(pairs), Heap(right.label, trans, h.iter))
        product_states(p) ==
            right.label + Cardinality({q \in pairs : Before(q, p, h.iter)})
        initial_pairs ==
            {p \in pairs : p[1] = left.nfa.initial /\ p[2] = right.nfa.initial}
        initial_state ==
            IF initial_pairs = {} THEN None
            ELSE product_states(CHOOSE p \in initial_pairs : TRUE)
        accepting_states ==
            {product_states(p) :
                p \in {q \in pairs : q[1] \in left.nfa.accepting
                                     /\ q[2] \in right.nfa.accepting}}
        edges == UNION {ProductEdges(p, product_states(p), trans) : p \in pairs}
    IN IF ~left.ok THEN left
       ELSE IF ~right.ok THEN right
       ELSE IF ~created.ok THEN Raise(LabelError, created.label, trans)
       ELSE IF Cardinality(initial_pairs) > 1
            THEN Raise("AssertionError", created.label, trans)
       ELSE IF \E e \in edges : e[3] \notin pairs
            THEN Raise("KeyError", created.label, trans)
       ELSE Return(NFA(initial_state, accepting_states), created.label,
                   trans \cup {<<e[1], e[2], product_states(e[3])>> : e \in edges})

RECURSIVE AddEpsilons(_, _, _)
\* for accept in accepting: accept.add_transition(EPSILON, to)
AddEpsilons(trans, accepting, to) ==
    IF accepting = {} THEN trans
    ELSE LET accept == CHOOSE s \in accepting : TRUE
         IN AddEpsilons(add_transition(trans, accept, EPSILON, to),
                        accepting \ {accept}, to)

\* Mutant of parse_concat_token: the left operand's accepting states stay
\* accepting.
parse_concat_token_KeepsLeftAccepting(token, h) ==
    LET left == parse_regex_token(token[2], h)
        right == parse_regex_token(token[3], Heap(left.label, left.trans, h.iter))
    IN IF ~left.ok THEN left
       ELSE IF ~right.ok THEN right
       ELSE Return(NFA(left.nfa.initial, left.nfa.accepting \cup right.nfa.accepting),
                   right.label,
                   AddEpsilons(right.trans, left.nfa.accepting, right.nfa.initial))

parse_concat_token(token, h) ==
    LET left == parse_regex_token(token[2], h)
        right == parse_regex_token(token[3], Heap(left.label, left.trans, h.iter))
    IN IF ~left.ok THEN left
       ELSE IF ~right.ok THEN right
       ELSE Return(NFA(left.nfa.initial, right.nfa.accepting), right.label,
                   AddEpsilons(right.trans, left.nfa.accepting, right.nfa.initial))

parse_kleene_star_token(token, h) ==
    LET root == parse_regex_token(token[2], h)
        initial == State(Heap(root.label, root.trans, h.iter))
    IN IF ~root.ok THEN root
       ELSE IF ~initial.ok THEN Raise(LabelError, initial.label, root.trans)
       ELSE Return(NFA(initial.id, {initial.id} \cup root.nfa.accepting),
                   initial.label,
                   AddEpsilons(add_transition(root.trans, initial.id, EPSILON,
                                              root.nfa.initial),
                               root.nfa.accepting, root.nfa.initial))

\* Mutant of parse_unary_op_token: every unary operator is taken for a
\* kleene-star.
parse_unary_op_token_NoCheck(token, h) == parse_kleene_star_token(token, h)

parse_unary_op_token(token, h) ==
    IF Class(token) = "KleeneStarToken" THEN parse_kleene_star_token(token, h)
    ELSE Raise("Unexpected unary op token", h.label, h.trans)

parse_binary_op_token(token, h) ==
    IF Class(token) = "ConcatToken" THEN parse_concat_token(token, h)
    ELSE IF Class(token) = "UnionToken" THEN parse_union_token(token, h)
    ELSE IF Class(token) = "IntersectionToken" THEN parse_intersection_token(token, h)
    ELSE Raise("Unexpected binary op token", h.label, h.trans)

parse_operator_token(token, h) ==
    IF Class(token) \in UnaryOperatorClasses THEN parse_unary_op_token(token, h)
    ELSE IF Class(token) \in BinaryOperatorClasses THEN parse_binary_op_token(token, h)
    ELSE Raise("Unexpected operator token", h.label, h.trans)

parse_regex_token(token, h) ==
    IF Class(token) \in LiteralClasses THEN parse_literal_token(token, h)
    ELSE IF Class(token) \in OperatorClasses THEN parse_operator_token(token, h)
    ELSE Raise("Unexpected token", h.label, h.trans)

UnexpectedErrors ==
    {"Unexpected token", "Unexpected operator token",
     "Unexpected unary op token", "Unexpected binary op token"}

\* lines 56-57 of parse_intersection_token: the two operand automata, when both
\* were built.
Operands(token, h) ==
    LET left == parse_regex_token(token[2], h)
        right == parse_regex_token(token[3], Heap(left.label, left.trans, h.iter))
    IN IF Class(token) = "IntersectionToken" /\ left.ok /\ right.ok
       THEN <<left.nfa, right.nfa>>
       ELSE <<>>

\* The methods class NFA defines.
NFAMethods == {"__init__", "collect_reachable_states", "__repr__"}

\* -------------------------------------------------------------- the process

VARIABLES
    pc,             \* the next step of main.run
    token,          \* the syntax tree handed to parse_regex_token
    current_label,  \* the module's global counter
    nfa,            \* the NFA the last call returned, NoNFA when it raised
    transitions,    \* the transition tables of the State objects of that call
    operands,       \* left and right of the root intersection, once both are built
    reachable,      \* what main.run printed as the reachable states
    raised,         \* the exception the last operation raised, "none" when none
    last_state,     \* the label of the State the last direct State() call made
    calls           \* the number of parse_regex_token calls made so far

vars ==
    <<pc, token, current_label, nfa, transitions, operands, reachable, raised,
      last_state, calls>>

NoToken == <<"NoToken">>

Init ==
    /\ pc = "parse"
    /\ token = NoToken
    /\ current_label = InitialLabel
    /\ nfa = NoNFA
    /\ transitions = {}
    /\ operands = <<>>
    /\ reachable = {}
    /\ raised = "none"
    /\ last_state = None
    /\ calls = 0

\* The intersections of two recognized trees of at most n nodes each.
Intersections(n) ==
    {<<"IntersectionToken", l, r>> :
        l \in Trees(n, RecognizedClasses), r \in Trees(n, RecognizedClasses)}

InputTrees ==
    Trees(MaxNodes, RecognizedClasses)
    \cup Intersections(MaxOperandNodes)
    \cup Trees(MaxBadNodes, AllClasses)

\* main.run, lines 6-11: the parser hands over a syntax tree.
Parse ==
    /\ pc = "parse"
    /\ \E t \in InputTrees : token' = t
    /\ pc' = "build"
    /\ UNCHANGED <<current_label, nfa, transitions, operands, reachable, raised,
                   last_state, calls>>

\* The effect of one call parse_regex_token(t) on the process.
Call(t, iter) ==
    LET h == Heap(current_label, {}, iter)
        r == parse_regex_token(t, h)
    IN /\ current_label' = r.label
       /\ nfa' = r.nfa
       /\ transitions' = IF r.ok THEN r.trans ELSE {}
       /\ operands' = Operands(t, h)
       /\ raised' = r.err
       /\ calls' = calls + 1

\* main.run, line 12.
Build ==
    /\ pc = "build"
    /\ \E iter \in IterOrders : Call(token, iter)
    /\ pc' = IF raised' = "none" THEN "report" ELSE "exit"
    /\ UNCHANGED <<token, reachable, last_state>>

\* main.run, lines 13-15.
Report ==
    /\ pc = "report"
    /\ reachable' = collect_reachable_states(nfa, transitions)
    /\ pc' = "convert"
    /\ UNCHANGED <<token, current_label, nfa, transitions, operands, raised,
                   last_state, calls>>

\* main.run, line 17: class NFA has no method convert_e_to_efree.
Convert ==
    /\ pc = "convert"
    /\ "convert_e_to_efree" \notin NFAMethods
    /\ raised' = "AttributeError"
    /\ pc' = "exit"
    /\ UNCHANGED <<token, current_label, nfa, transitions, operands, reachable,
                   last_state, calls>>

Next == Parse \/ Build \/ Report \/ Convert

Spec == Init /\ [][Next]_vars

\* ----------------------------------------- one process used as a library
\* A caller (a test, an interactive session) that catches exceptions and goes
\* on using the module in the same process.

\* Largest number of nodes of a syntax tree of a repeated call.
MaxSessionNodes == 3

\* Largest number of parse_regex_token calls of one process.
MaxCalls == 2

SessionTrees == Trees(MaxSessionNodes, RecognizedClasses)

\* A direct call State().
NewState ==
    LET s == State(Heap(current_label, transitions, "ascending"))
    IN /\ current_label' = s.label
       /\ last_state' = s.id
       /\ raised' = IF s.ok THEN "none" ELSE LabelError
       /\ UNCHANGED <<pc, token, nfa, transitions, operands, reachable, calls>>

\* A call parse_regex_token(t); its result replaces the caller's nfa.
ParseCall ==
    /\ calls < MaxCalls
    /\ \E t \in SessionTrees, iter \in IterOrders : token' = t /\ Call(t, iter)
    /\ UNCHANGED <<pc, reachable, last_state>>

NextSession == NewState \/ ParseCall

SpecSession == Init /\ [][NextSession]_vars

NextRuns == ParseCall

SpecRuns == Init /\ [][NextRuns]_vars

\* -------------------------------------------------- languages (for the claims)

\* Every string over the alphabet of length at most MaxLen.
Words == UNION {[1..k -> Alphabet] : k \in 0..MaxLen}

RECURSIVE EpsilonClosure(_, _)
\* The states reached from the set S by epsilon moves alone.
EpsilonClosure(S, trans) ==
    LET more == S \cup {e[3] : e \in {x \in trans : x[1] \in S /\ x[2] = EPSILON}}
    IN IF more = S THEN S ELSE EpsilonClosure(more, trans)

\* The states reached from the set S by consuming symbol a.
Move(S, a, trans) ==
    EpsilonClosure({e[3] : e \in {x \in trans : x[1] \in S /\ x[2] = a}}, trans)

RECURSIVE After(_, _, _)
\* The states the automaton can be in after consuming the string w from S.
After(S, w, trans) ==
    IF Len(w) = 0 THEN S
    ELSE After(Move(S, Head(w), trans), Tail(w), trans)

\* A path from the initial state to an accepting state spells w.
Accepts(a, trans, w) ==
    After(EpsilonClosure({a.initial}, trans), w, trans) \cap a.accepting # {}

Accepted(a, trans) == {w \in Words : Accepts(a, trans, w)}

ConcatLang(L, R) == {u \o v : u \in L, v \in R} \cap Words

RECURSIVE StarLang(_, _)
StarLang(L, acc) ==
    LET more == acc \cup ConcatLang(acc, L)
    IN IF more = acc THEN acc ELSE StarLang(L, more)

RECURSIVE Lang(_)
\* The strings of Words in the language the regular expression denotes.
Lang(t) ==
    IF Class(t) = "LiteralToken" THEN {<<t[2]>>} \cap Words
    ELSE IF Class(t) = "UnionToken" THEN Lang(t[2]) \cup Lang(t[3])
    ELSE IF Class(t) = "IntersectionToken" THEN Lang(t[2]) \cap Lang(t[3])
    ELSE IF Class(t) = "ConcatToken" THEN ConcatLang(Lang(t[2]), Lang(t[3]))
    ELSE StarLang(Lang(t[2]), {<<>>})

HasIntersection(t) == \E s \in Subtrees(t) : Class(s) = "IntersectionToken"

\* The last parse_regex_token call raised / returned an automaton.
BuildRaised == calls > 0 /\ raised \notin {"none", "AttributeError"}

Returned == calls > 0 /\ raised = "none" /\ nfa # NoNFA

\* ------------------------------------------------------------------ claims

\* C1: the automaton parse_intersection_token returns accepts exactly the strings
\* (up to MaxLen symbols) that both operand automata accept.
C1_IntersectionLanguage ==
    (Returned /\ operands # <<>>) =>
        Accepted(nfa, transitions) =
            Accepted(operands[1], transitions) \cap Accepted(operands[2], transitions)

\* C1 witness: a product was returned whose operands share a non-empty string and
\* where one operand makes epsilon moves.
C1_Witness ==
    /\ Returned /\ operands # <<>>
    /\ \E w \in Accepted(nfa, transitions) : Len(w) > 0
    /\ \E e \in transitions : e[2] = EPSILON /\ e[1] = nfa.initial
    /\ Accepted(operands[1], transitions) # Accepted(operands[2], transitions)

\* C9: for a tree of literals, unions, concatenations and stars the returned
\* automaton accepts exactly the strings (up to MaxLen symbols) of the language
\* the expression denotes.
C9_ThompsonLanguage ==
    (Returned /\ ~HasIntersection(token)) => Accepted(nfa, transitions) = Lang(token)

\* C9 witness: a concatenation whose left operand is a star (its accepting states
\* already have outgoing edges) was built and accepts a string of two symbols.
C9_Witness ==
    /\ Returned /\ ~HasIntersection(token)
    /\ Class(token) = "ConcatToken" /\ Class(token[2]) = "KleeneStarToken"
    /\ \E w \in Accepted(nfa, transitions) : Len(w) = 2

\* C2 (as claimed): every accepting state of a returned automaton is reachable
\* from its initial state.
C2_AcceptingReachable ==
    Returned => nfa.accepting \subseteq collect_reachable_states(nfa, transitions)

\* C3 (as claimed): once both operands of an intersection are built, the product
\* construction returns an automaton.
C3_ProductTotal == operands # <<>> => ~BuildRaised

\* C4 (as claimed): the outcome of a second call in the same process is the
\* outcome the same call has in a fresh process.
C4_NoLeakBetweenCalls ==
    calls >= 2 =>
        \E iter \in IterOrders :
            LET fresh == parse_regex_token(token, Heap(InitialLabel, {}, iter))
            IN fresh.err = raised /\ fresh.nfa = nfa

\* C5: a tree with an unrecognized node anywhere ends in an exception and no
\* automaton; a tree of recognized nodes never takes an "Unexpected ..." path.
C5_UnrecognizedIsFatal ==
    calls > 0 =>
        /\ ~OnlyRecognized(token) => (BuildRaised /\ nfa = NoNFA)
        /\ OnlyRecognized(token) => raised \notin UnexpectedErrors

\* C5 witness: the unrecognized node sits below a recognized root whose other
\* operand was built before the error.
C5_Witness ==
    /\ calls > 0 /\ ~OnlyRecognized(token)
    /\ Class(token) \in RecognizedClasses
    /\ Class(token) \in BinaryOperatorClasses /\ OnlyRecognized(token[2])
    /\ raised \in UnexpectedErrors /\ nfa = NoNFA /\ current_label > InitialLabel

\* C6 (as claimed): the epsilon-elimination step of the pipeline completes and
\* leaves no epsilon transition on a reachable state.
C6_ConvertCompletes ==
    [][pc = "convert" =>
        /\ raised' = "none"
        /\ \A e \in transitions' :
             e[1] \in collect_reachable_states(nfa', transitions') => e[2] # EPSILON]_vars

\* C7 (as claimed): the intersection of two distinct literals has an empty
\* accepting set.
C7_DisjointLiteralsEmpty ==
    (/\ Returned
     /\ Class(token) = "IntersectionToken"
     /\ Class(token[2]) = "LiteralToken" /\ Class(token[3]) = "LiteralToken"
     /\ token[2] # token[3])
    => nfa.accepting = {}

\* C8: the set collect_reachable_states returns holds the initial state and is
\* closed under every transition of every label.
C8_ReachableClosed ==
    pc = "convert" =>
        /\ nfa.initial \in reachable
        /\ \A e \in transitions : e[1] \in reachable => e[3] \in reachable

\* C8 witness: the walk went through an epsilon cycle made by a kleene-star.
C8_Witness ==
    /\ pc = "convert" /\ Class(token) = "KleeneStarToken"
    /\ \E e \in transitions :
         /\ e[2] = EPSILON /\ e[1] \in reachable /\ e[1] # e[3]
         /\ e[1] \in EpsilonClosure({e[3]}, transitions)

\* C10 (as claimed): at most 26 State objects are ever created in one process.
C10_AtMost26States == current_label - InitialLabel <= 26

====
